---- MODULE Spec2Model ----
(***************************************************************************)
(* Model of Contracts/shared/src/events.rs: the standardized event         *)
(* envelope (EventEmitter::emit_standard), the domain emission helpers     *)
(* with their legacy publishes, and the schema version resolver            *)
(* (EventSchema).                                                          *)
(*                                                                         *)
(* The execution environment (Env) is the state: its append-only event     *)
(* log, its ledger timestamp and the address of the running contract.      *)
(* Every value handed to the host is a tagged Val, as IntoVal produces it. *)
(***************************************************************************)
EXTENDS Integers, Sequences, FiniteSets, TLC

VARIABLES
    log,        \* env.events(): the events published so far, in order
    origin,     \* history: origin[i] is the number of the call that published log[i]
    clock,      \* env.ledger().timestamp()
    contract,   \* env.current_contract_address()
    history,    \* history: the calls made so far, their arguments and outcomes
    query       \* the last EventSchema query and its result

vars == <<log, origin, clock, contract, history, query>>

----------------------------------------------------------------------------
(* Bounds of the model *)

MaxCalls == 2         \* calls of a behaviour of Spec
MaxCallArgs == 1      \* calls of a behaviour of CallSpec
MaxClock == 1         \* ledger timestamps 0..MaxClock
MaxVersion == 11      \* schema versions 0..MaxVersion are queried
I128Bits == 4         \* width the model gives to i128 (two's complement)

I128_MAX == 2 ^ (I128Bits - 1) - 1
I128_MIN == -(2 ^ (I128Bits - 1))

Contracts == {"CA", "CB"}
Versions == 0 .. MaxVersion

(* soroban_sdk::String values: the text, its length, and whether every     *)
(* character is one a Symbol may hold (a-zA-Z0-9_).                        *)
Texts ==
    { [text |-> "airdrop",     len |-> 7,  symchars |-> TRUE],
      [text |-> "team grant",  len |-> 10, symchars |-> FALSE],
      [text |-> "a_reason_of_thirty_three_chars_33", len |-> 33, symchars |-> TRUE] }

(* Input domains of sequences of calls: every function is called, in any order, with *)
(* few arguments each, among them texts that are no symbols and an event   *)
(* type outside the topics module.                                         *)
SequenceInputs ==
    [ calls       |-> MaxCalls,
      address     |-> {"GA"},
      token       |-> {"CUSD"},
      amount      |-> {1},
      fee         |-> {2},
      price       |-> {3},
      rewards     |-> {4},
      rewardInput |-> {1},
      lockPeriod  |-> {30},
      proposalId  |-> {1},
      votingPower |-> {3},
      multiplier  |-> {2},
      pair        |-> {"XLMUSDC"},
      voteType    |-> {"yes"},
      propType    |-> {"upgrade"},
      flag        |-> {TRUE},
      authorized  |-> BOOLEAN,
      reason      |-> {<<>>} \cup {<<t>> : t \in Texts},
      title       |-> Texts,
      eventType   |-> {"transfer", "custom"},
      user        |-> {<<>>, <<"GA">>},
      data        |-> {<<>>},
      metadata    |-> {[k \in {} |-> <<>>]} ]

(* Input domains of single calls: the arguments vary, the i128 ones up to  *)
(* the ends of the range.                                                  *)
ArgumentInputs ==
    [ calls       |-> MaxCallArgs,
      address     |-> {"GA", "GB"},
      token       |-> {"CUSD", "CXLM"},
      amount      |-> {1, I128_MAX},
      fee         |-> {0, 2},
      price       |-> {3},
      rewards     |-> {4},
      rewardInput |-> {I128_MIN, 1, I128_MAX},
      lockPeriod  |-> {0, 30},
      proposalId  |-> {1, 2},
      votingPower |-> {3},
      multiplier  |-> {2},
      pair        |-> {"XLMUSDC"},
      voteType    |-> {"yes", "no"},
      propType    |-> {"upgrade"},
      flag        |-> BOOLEAN,
      authorized  |-> BOOLEAN,
      reason      |-> {<<>>} \cup {<<t>> : t \in Texts},
      title       |-> Texts,
      eventType   |-> {"transfer", "custom"},
      user        |-> {<<>>, <<"GA">>},
      data        |-> {<<[tag |-> "I128", val |-> 1]>>},
      metadata    |-> {[k \in {"note"} |-> <<[tag |-> "Symbol", val |-> "x"],
                                             [tag |-> "Symbol", val |-> "y"]>>]} ]

----------------------------------------------------------------------------
(* Program constants *)

CURRENT_VERSION == 1
SYMBOL_MAX_LEN == 32

(* topics *)
TRANSFER == "transfer"
APPROVE == "approve"
MINT == "mint"
BURN == "burn"
TRADE_EXECUTED == "trade"
CONTRACT_PAUSED == "paused"
CONTRACT_UNPAUSED == "unpause"
FEE_COLLECTED == "fee"
STAKE == "stake"
UNSTAKE == "unstake"
REWARDS_CLAIMED == "rewards_claimed"
POOL_UPDATED == "pool_updated"
PROPOSAL_CREATED == "propose"
PROPOSAL_APPROVED == "approve"
PROPOSAL_REJECTED == "reject"
PROPOSAL_EXECUTED == "execute"
PROPOSAL_CANCELLED == "cancel"
VOTE == "vote"
ADMIN_CHANGED == "admin_changed"
AUTHORIZATION_CHANGED == "auth_changed"
EMERGENCY_MODE == "emergency_mode"
ORACLE_UPDATED == "oracle_updated"
UPGRADE_PROPOSED == "upgrade_proposed"
UPGRADE_EXECUTED == "upgrade_executed"
REWARD_ADDED == "reward"
REWARD_CLAIMED == "claimed"

(* The identifiers of mod topics *)
topics ==
    { TRANSFER, APPROVE, MINT, BURN,
      TRADE_EXECUTED, CONTRACT_PAUSED, CONTRACT_UNPAUSED, FEE_COLLECTED,
      STAKE, UNSTAKE, REWARDS_CLAIMED, POOL_UPDATED,
      PROPOSAL_CREATED, PROPOSAL_APPROVED, PROPOSAL_REJECTED,
      PROPOSAL_EXECUTED, PROPOSAL_CANCELLED, VOTE,
      ADMIN_CHANGED, AUTHORIZATION_CHANGED, EMERGENCY_MODE,
      ORACLE_UPDATED, UPGRADE_PROPOSED, UPGRADE_EXECUTED,
      REWARD_ADDED, REWARD_CLAIMED }

(* mod topics as a registry: the name of each event and its identifier *)
TopicRegistry ==
    [ TRANSFER              |-> TRANSFER,
      APPROVE               |-> APPROVE,
      MINT                  |-> MINT,
      BURN                  |-> BURN,
      TRADE_EXECUTED        |-> TRADE_EXECUTED,
      CONTRACT_PAUSED       |-> CONTRACT_PAUSED,
      CONTRACT_UNPAUSED     |-> CONTRACT_UNPAUSED,
      FEE_COLLECTED         |-> FEE_COLLECTED,
      STAKE                 |-> STAKE,
      UNSTAKE               |-> UNSTAKE,
      REWARDS_CLAIMED       |-> REWARDS_CLAIMED,
      POOL_UPDATED          |-> POOL_UPDATED,
      PROPOSAL_CREATED      |-> PROPOSAL_CREATED,
      PROPOSAL_APPROVED     |-> PROPOSAL_APPROVED,
      PROPOSAL_REJECTED     |-> PROPOSAL_REJECTED,
      PROPOSAL_EXECUTED     |-> PROPOSAL_EXECUTED,
      PROPOSAL_CANCELLED    |-> PROPOSAL_CANCELLED,
      VOTE                  |-> VOTE,
      ADMIN_CHANGED         |-> ADMIN_CHANGED,
      AUTHORIZATION_CHANGED |-> AUTHORIZATION_CHANGED,
      EMERGENCY_MODE        |-> EMERGENCY_MODE,
      ORACLE_UPDATED        |-> ORACLE_UPDATED,
      UPGRADE_PROPOSED      |-> UPGRADE_PROPOSED,
      UPGRADE_EXECUTED      |-> UPGRADE_EXECUTED,
      REWARD_ADDED          |-> REWARD_ADDED,
      REWARD_CLAIMED        |-> REWARD_CLAIMED ]

(* metadata keys of EventEmitter *)
AMOUNT_KEY == "amount"
FROM_KEY == "from"
TO_KEY == "to"
TOKEN_KEY == "token"
PAIR_KEY == "pair"
PRICE_KEY == "price"
FEE_KEY == "fee"
REASON_KEY == "reason"
PROPOSAL_ID_KEY == "proposal_id"
VOTE_TYPE_KEY == "vote_type"
LOCK_PERIOD_KEY == "lock_period"
REWARD_RATE_KEY == "reward_rate"

(* The root topic of the standardized channel *)
STELLARA_EVENT == "stellara_event"

----------------------------------------------------------------------------
(* Host values *)

(* x.into_val(env): the value with the tag of its type *)
IntoVal(type, x) == [tag |-> type, val |-> x]

AddressVal(a) == IntoVal("Address", a)
I128Val(n) == IntoVal("I128", n)
U128Val(n) == IntoVal("U128", n)
U64Val(n) == IntoVal("U64", n)
U32Val(n) == IntoVal("U32", n)
BoolVal(b) == IntoVal("Bool", b)
SymbolVal(s) == IntoVal("Symbol", s)
StringVal(t) == IntoVal("String", t.text)

(* Option<T> *)
None == <<>>
Some(x) == <<x>>

(* Vec *)
VecNew == <<>>
push_back(v, x) == Append(v, x)
VecFromArray(x) == <<x>>

(* Map *)
MapNew == [k \in {} |-> <<>>]
MapSet(m, k, v) == [x \in (DOMAIN m) \cup {k} |-> IF x = k THEN v ELSE m[x]]

(* Symbol::new(env, &text) panics unless the text is at most 32 characters *)
(* of a-zA-Z0-9_; it then is the symbol of those characters.               *)
SymbolNewOk(t) == t.len <= SYMBOL_MAX_LEN /\ t.symchars
SymbolNew(t) == t.text

(* i128 addition of a build without overflow checks *)
WrapI128(n) == ((n - I128_MIN) % (2 ^ I128Bits)) + I128_MIN
InI128(n) == I128_MIN <= n /\ n <= I128_MAX

----------------------------------------------------------------------------
(* Outcome of a call on the event log: it returns, or it panics *)

Returned(events) == [ok |-> TRUE, events |-> events]
Panicked(events) == [ok |-> FALSE, events |-> events]

(* A publish that puts the event in front of the earlier ones *)
publish_front(events, tpcs, data) == <<[topics |-> tpcs, data |-> data]>> \o events

(* env.events().publish(topics, data) *)
publish(events, tpcs, data) == Append(events, [topics |-> tpcs, data |-> data])

(* An emit_standard that does not read the ledger timestamp *)
emit_standard_unstamped(events, event_type, user_address, data, metadata) ==
    publish(events,
            <<SymbolVal(STELLARA_EVENT), SymbolVal(event_type)>>,
            [ contract_address |-> contract,
              user_address     |-> user_address,
              data             |-> data,
              metadata         |-> metadata,
              timestamp        |-> 0,
              version          |-> CURRENT_VERSION ])

(* EventEmitter::emit_standard *)
emit_standard(events, event_type, user_address, data, metadata) ==
    LET event == [ event_type       |-> event_type,
                   contract_address |-> contract,
                   user_address     |-> user_address,
                   data             |-> data,
                   metadata         |-> metadata,
                   timestamp        |-> clock,
                   version          |-> CURRENT_VERSION ]
    IN publish(events,
               <<SymbolVal(STELLARA_EVENT), SymbolVal(event.event_type)>>,
               [ contract_address |-> event.contract_address,
                 user_address     |-> event.user_address,
                 data             |-> event.data,
                 metadata         |-> event.metadata,
                 timestamp        |-> event.timestamp,
                 version          |-> event.version ])

(* A transfer that leaves out the legacy publish *)
transfer_without_legacy(events, from, to, amount, token) ==
    LET data == push_back(push_back(VecNew, I128Val(amount)), AddressVal(token))
        m1 == MapSet(MapNew, FROM_KEY, VecFromArray(AddressVal(from)))
        m2 == MapSet(m1, TO_KEY, VecFromArray(AddressVal(to)))
        m3 == MapSet(m2, AMOUNT_KEY, VecFromArray(I128Val(amount)))
        metadata == MapSet(m3, TOKEN_KEY, VecFromArray(AddressVal(token)))
    IN Returned(emit_standard(events, TRANSFER, Some(from), data, metadata))

(* EventEmitter::transfer *)
transfer(events, from, to, amount, token) ==
    LET data == push_back(push_back(VecNew, I128Val(amount)), AddressVal(token))
        m1 == MapSet(MapNew, FROM_KEY, VecFromArray(AddressVal(from)))
        m2 == MapSet(m1, TO_KEY, VecFromArray(AddressVal(to)))
        m3 == MapSet(m2, AMOUNT_KEY, VecFromArray(I128Val(amount)))
        metadata == MapSet(m3, TOKEN_KEY, VecFromArray(AddressVal(token)))
        e1 == emit_standard(events, TRANSFER, Some(from), data, metadata)
    IN Returned(publish(e1,
                        <<SymbolVal(TRANSFER), AddressVal(from), AddressVal(to)>>,
                        I128Val(amount)))

(* EventEmitter::approve *)
approve(events, owner, spender, amount, token) ==
    LET data == push_back(push_back(VecNew, I128Val(amount)), AddressVal(token))
        m1 == MapSet(MapNew, FROM_KEY, VecFromArray(AddressVal(owner)))
        m2 == MapSet(m1, TO_KEY, VecFromArray(AddressVal(spender)))
        m3 == MapSet(m2, AMOUNT_KEY, VecFromArray(I128Val(amount)))
        metadata == MapSet(m3, TOKEN_KEY, VecFromArray(AddressVal(token)))
        e1 == emit_standard(events, APPROVE, Some(owner), data, metadata)
    IN Returned(publish(e1,
                        <<SymbolVal(APPROVE), AddressVal(owner), AddressVal(spender)>>,
                        I128Val(amount)))

(* A mint that interns the reason only after the standardized publish *)
mint_intern_late(events, to, amount, token, reason) ==
    LET d2 == push_back(push_back(VecNew, I128Val(amount)), AddressVal(token))
        m1 == MapSet(MapNew, TO_KEY, VecFromArray(AddressVal(to)))
        m2 == MapSet(m1, AMOUNT_KEY, VecFromArray(I128Val(amount)))
        m3 == MapSet(m2, TOKEN_KEY, VecFromArray(AddressVal(token)))
        e1 == emit_standard(events, MINT, Some(to), d2, m3)
    IN IF reason # None /\ ~SymbolNewOk(reason[1])
       THEN Panicked(e1)
       ELSE Returned(publish(e1, <<SymbolVal(MINT), AddressVal(to)>>, I128Val(amount)))

(* A mint that writes an empty reason when it is given none *)
mint_placeholder(events, to, amount, token, reason) ==
    IF reason # None /\ ~SymbolNewOk(reason[1])
    THEN Panicked(events)
    ELSE
    LET r == IF reason # None THEN SymbolNew(reason[1]) ELSE ""
        d2 == push_back(push_back(VecNew, I128Val(amount)), AddressVal(token))
        data == push_back(d2, SymbolVal(r))
        m1 == MapSet(MapNew, TO_KEY, VecFromArray(AddressVal(to)))
        m2 == MapSet(m1, AMOUNT_KEY, VecFromArray(I128Val(amount)))
        m3 == MapSet(m2, TOKEN_KEY, VecFromArray(AddressVal(token)))
        metadata == MapSet(m3, REASON_KEY, VecFromArray(SymbolVal(r)))
        e1 == emit_standard(events, MINT, Some(to), data, metadata)
    IN Returned(publish(e1, <<SymbolVal(MINT), AddressVal(to)>>, I128Val(amount)))

(* EventEmitter::mint *)
mint(events, to, amount, token, reason) ==
    IF reason # None /\ ~SymbolNewOk(reason[1])
    THEN Panicked(events)
    ELSE
    LET d2 == push_back(push_back(VecNew, I128Val(amount)), AddressVal(token))
        data == IF reason # None
                THEN push_back(d2, SymbolVal(SymbolNew(reason[1])))
                ELSE d2
        m1 == MapSet(MapNew, TO_KEY, VecFromArray(AddressVal(to)))
        m2 == MapSet(m1, AMOUNT_KEY, VecFromArray(I128Val(amount)))
        m3 == MapSet(m2, TOKEN_KEY, VecFromArray(AddressVal(token)))
        metadata == IF reason # None
                    THEN MapSet(m3, REASON_KEY, VecFromArray(SymbolVal(SymbolNew(reason[1]))))
                    ELSE m3
        e1 == emit_standard(events, MINT, Some(to), data, metadata)
    IN Returned(publish(e1, <<SymbolVal(MINT), AddressVal(to)>>, I128Val(amount)))

(* EventEmitter::burn *)
burn(events, from, amount, token) ==
    LET data == push_back(push_back(VecNew, I128Val(amount)), AddressVal(token))
        m1 == MapSet(MapNew, FROM_KEY, VecFromArray(AddressVal(from)))
        m2 == MapSet(m1, AMOUNT_KEY, VecFromArray(I128Val(amount)))
        metadata == MapSet(m2, TOKEN_KEY, VecFromArray(AddressVal(token)))
        e1 == emit_standard(events, BURN, Some(from), data, metadata)
    IN Returned(publish(e1, <<SymbolVal(BURN), AddressVal(from)>>, I128Val(amount)))

(* EventEmitter::stake *)
stake(events, user, amount, lock_period, token) ==
    LET d1 == push_back(VecNew, I128Val(amount))
        d2 == push_back(d1, U64Val(lock_period))
        data == push_back(d2, AddressVal(token))
        m1 == MapSet(MapNew, AMOUNT_KEY, VecFromArray(I128Val(amount)))
        m2 == MapSet(m1, LOCK_PERIOD_KEY, VecFromArray(U64Val(lock_period)))
        metadata == MapSet(m2, TOKEN_KEY, VecFromArray(AddressVal(token)))
        e1 == emit_standard(events, STAKE, Some(user), data, metadata)
    IN Returned(publish(e1,
                        <<SymbolVal(STAKE), AddressVal(user)>>,
                        <<I128Val(amount), U64Val(lock_period), U64Val(clock)>>))

(* An unstake that pushes the fee before the rewards *)
unstake_swapped(events, user, amount, rewards, fee, token) ==
    LET d1 == push_back(VecNew, I128Val(amount))
        d2 == push_back(d1, I128Val(fee))
        d3 == push_back(d2, I128Val(rewards))
        data == push_back(d3, AddressVal(token))
        m1 == MapSet(MapNew, AMOUNT_KEY, VecFromArray(I128Val(amount)))
        m2 == MapSet(m1, FEE_KEY, VecFromArray(I128Val(fee)))
        metadata == MapSet(m2, TOKEN_KEY, VecFromArray(AddressVal(token)))
        e1 == emit_standard(events, UNSTAKE, Some(user), data, metadata)
    IN Returned(publish(e1,
                        <<SymbolVal(UNSTAKE), AddressVal(user)>>,
                        <<I128Val(amount), I128Val(rewards), I128Val(fee), U64Val(clock)>>))

(* EventEmitter::unstake *)
unstake(events, user, amount, rewards, fee, token) ==
    LET d1 == push_back(VecNew, I128Val(amount))
        d2 == push_back(d1, I128Val(rewards))
        d3 == push_back(d2, I128Val(fee))
        data == push_back(d3, AddressVal(token))
        m1 == MapSet(MapNew, AMOUNT_KEY, VecFromArray(I128Val(amount)))
        m2 == MapSet(m1, FEE_KEY, VecFromArray(I128Val(fee)))
        metadata == MapSet(m2, TOKEN_KEY, VecFromArray(AddressVal(token)))
        e1 == emit_standard(events, UNSTAKE, Some(user), data, metadata)
    IN Returned(publish(e1,
                        <<SymbolVal(UNSTAKE), AddressVal(user)>>,
                        <<I128Val(amount), I128Val(rewards), I128Val(fee), U64Val(clock)>>))

(* EventEmitter::rewards_claimed.  base_rewards + bonus_rewards is an i128  *)
(* addition: when the sum leaves the range, a build with overflow checks    *)
(* panics there (before anything is published) and a build without wraps.   *)
rewards_claimed(events, user, base_rewards, bonus_rewards, token, overflow_checks) ==
    IF overflow_checks /\ ~InI128(base_rewards + bonus_rewards)
    THEN Panicked(events)
    ELSE
    LET d1 == push_back(VecNew, I128Val(base_rewards))
        d2 == push_back(d1, I128Val(bonus_rewards))
        data == push_back(d2, AddressVal(token))
        m1 == MapSet(MapNew, AMOUNT_KEY,
                     VecFromArray(I128Val(WrapI128(base_rewards + bonus_rewards))))
        metadata == MapSet(m1, TOKEN_KEY, VecFromArray(AddressVal(token)))
        e1 == emit_standard(events, REWARDS_CLAIMED, Some(user), data, metadata)
    IN Returned(publish(e1,
                        <<SymbolVal(REWARDS_CLAIMED), AddressVal(user)>>,
                        <<I128Val(base_rewards), I128Val(bonus_rewards), U64Val(clock)>>))

(* EventEmitter::vote *)
vote(events, voter, proposal_id, vote_type, voting_power) ==
    LET d1 == push_back(VecNew, U64Val(proposal_id))
        d2 == push_back(d1, SymbolVal(vote_type))
        data == push_back(d2, U128Val(voting_power))
        m1 == MapSet(MapNew, PROPOSAL_ID_KEY, VecFromArray(U64Val(proposal_id)))
        metadata == MapSet(m1, VOTE_TYPE_KEY, VecFromArray(SymbolVal(vote_type)))
        e1 == emit_standard(events, VOTE, Some(voter), data, metadata)
    IN Returned(publish(e1,
                        <<SymbolVal(VOTE), AddressVal(voter)>>,
                        <<U64Val(proposal_id), SymbolVal(vote_type),
                          U128Val(voting_power), U64Val(clock)>>))

(* EventEmitter::admin_changed *)
admin_changed(events, old_admin, new_admin) ==
    LET data == push_back(push_back(VecNew, AddressVal(old_admin)), AddressVal(new_admin))
        m1 == MapSet(MapNew, FROM_KEY, VecFromArray(AddressVal(old_admin)))
        metadata == MapSet(m1, TO_KEY, VecFromArray(AddressVal(new_admin)))
        e1 == emit_standard(events, ADMIN_CHANGED, Some(old_admin), data, metadata)
    IN Returned(publish(e1,
                        <<SymbolVal(ADMIN_CHANGED), AddressVal(old_admin)>>,
                        AddressVal(new_admin)))

(* An authorization_changed that names the user as actor only when it      *)
(* grants                                                                  *)
authorization_changed_grants(events, user, authorized) ==
    LET data == push_back(VecNew, BoolVal(authorized))
        metadata == MapSet(MapNew, TO_KEY, VecFromArray(AddressVal(user)))
        actor == IF authorized THEN Some(user) ELSE None
        e1 == emit_standard(events, AUTHORIZATION_CHANGED, actor, data, metadata)
    IN Returned(publish(e1,
                        <<SymbolVal(AUTHORIZATION_CHANGED), AddressVal(user)>>,
                        BoolVal(authorized)))

(* EventEmitter::authorization_changed *)
authorization_changed(events, user, authorized) ==
    LET data == push_back(VecNew, BoolVal(authorized))
        metadata == MapSet(MapNew, TO_KEY, VecFromArray(AddressVal(user)))
        e1 == emit_standard(events, AUTHORIZATION_CHANGED, Some(user), data, metadata)
    IN Returned(publish(e1,
                        <<SymbolVal(AUTHORIZATION_CHANGED), AddressVal(user)>>,
                        BoolVal(authorized)))

(* EventEmitter::pool_updated *)
pool_updated(events, admin, reward_rate, bonus_multiplier) ==
    LET data == push_back(push_back(VecNew, I128Val(reward_rate)), U32Val(bonus_multiplier))
        metadata == MapSet(MapNew, REWARD_RATE_KEY, VecFromArray(I128Val(reward_rate)))
        e1 == emit_standard(events, POOL_UPDATED, Some(admin), data, metadata)
    IN Returned(publish(e1,
                        <<SymbolVal(POOL_UPDATED), AddressVal(admin)>>,
                        <<I128Val(reward_rate), U32Val(bonus_multiplier), U64Val(clock)>>))

(* EventEmitter::trade_executed_legacy *)
trade_executed_legacy(events, event) ==
    publish(events, <<SymbolVal(TRADE_EXECUTED)>>, event)

(* EventEmitter::fee_collected_legacy *)
fee_collected_legacy(events, event) ==
    publish(events, <<SymbolVal(FEE_COLLECTED)>>, event)

(* EventEmitter::trade_executed *)
trade_executed(events, trader, pair, amount, price, is_buy, fee_amount, fee_token) ==
    LET d1 == push_back(VecNew, SymbolVal(pair))
        d2 == push_back(d1, I128Val(amount))
        d3 == push_back(d2, I128Val(price))
        d4 == push_back(d3, BoolVal(is_buy))
        d5 == push_back(d4, I128Val(fee_amount))
        data == push_back(d5, AddressVal(fee_token))
        m1 == MapSet(MapNew, PAIR_KEY, VecFromArray(SymbolVal(pair)))
        m2 == MapSet(m1, AMOUNT_KEY, VecFromArray(I128Val(amount)))
        m3 == MapSet(m2, PRICE_KEY, VecFromArray(I128Val(price)))
        m4 == MapSet(m3, FEE_KEY, VecFromArray(I128Val(fee_amount)))
        metadata == MapSet(m4, TOKEN_KEY, VecFromArray(AddressVal(fee_token)))
        e1 == emit_standard(events, TRADE_EXECUTED, Some(trader), data, metadata)
        event == [ trade_id   |-> 0,
                   trader     |-> trader,
                   pair       |-> pair,
                   amount     |-> amount,
                   price      |-> price,
                   is_buy     |-> is_buy,
                   fee_amount |-> fee_amount,
                   fee_token  |-> fee_token,
                   timestamp  |-> clock ]
    IN Returned(trade_executed_legacy(e1, event))

(* A fee_collected that files the recipient under from and the payer under to *)
fee_collected_swapped(events, payer, recipient, amount, token) ==
    LET data == push_back(push_back(VecNew, I128Val(amount)), AddressVal(token))
        m1 == MapSet(MapNew, FROM_KEY, VecFromArray(AddressVal(recipient)))
        m2 == MapSet(m1, TO_KEY, VecFromArray(AddressVal(payer)))
        m3 == MapSet(m2, AMOUNT_KEY, VecFromArray(I128Val(amount)))
        metadata == MapSet(m3, TOKEN_KEY, VecFromArray(AddressVal(token)))
        e1 == emit_standard(events, FEE_COLLECTED, Some(payer), data, metadata)
        event == [ payer     |-> payer,
                   recipient |-> recipient,
                   amount    |-> amount,
                   token     |-> token,
                   timestamp |-> clock ]
    IN Returned(fee_collected_legacy(e1, event))

(* EventEmitter::fee_collected *)
fee_collected(events, payer, recipient, amount, token) ==
    LET data == push_back(push_back(VecNew, I128Val(amount)), AddressVal(token))
        m1 == MapSet(MapNew, FROM_KEY, VecFromArray(AddressVal(payer)))
        m2 == MapSet(m1, TO_KEY, VecFromArray(AddressVal(recipient)))
        m3 == MapSet(m2, AMOUNT_KEY, VecFromArray(I128Val(amount)))
        metadata == MapSet(m3, TOKEN_KEY, VecFromArray(AddressVal(token)))
        e1 == emit_standard(events, FEE_COLLECTED, Some(payer), data, metadata)
        event == [ payer     |-> payer,
                   recipient |-> recipient,
                   amount    |-> amount,
                   token     |-> token,
                   timestamp |-> clock ]
    IN Returned(fee_collected_legacy(e1, event))

(* EventEmitter::proposal_created *)
proposal_created(events, proposer, proposal_id, title, proposal_type) ==
    IF ~SymbolNewOk(title)
    THEN Panicked(events)
    ELSE
    LET d1 == push_back(VecNew, U64Val(proposal_id))
        d2 == push_back(d1, SymbolVal(SymbolNew(title)))
        data == push_back(d2, SymbolVal(proposal_type))
        metadata == MapSet(MapNew, PROPOSAL_ID_KEY, VecFromArray(U64Val(proposal_id)))
        e1 == emit_standard(events, PROPOSAL_CREATED, Some(proposer), data, metadata)
    IN Returned(publish(e1,
                        <<SymbolVal(PROPOSAL_CREATED), AddressVal(proposer)>>,
                        <<U64Val(proposal_id), StringVal(title),
                          SymbolVal(proposal_type), U64Val(clock)>>))

(* EventEmitter::proposal_executed *)
proposal_executed(events, executor, proposal_id, success) ==
    LET data == push_back(push_back(VecNew, U64Val(proposal_id)), BoolVal(success))
        metadata == MapSet(MapNew, PROPOSAL_ID_KEY, VecFromArray(U64Val(proposal_id)))
        e1 == emit_standard(events, PROPOSAL_EXECUTED, Some(executor), data, metadata)
    IN Returned(publish(e1,
                        <<SymbolVal(PROPOSAL_EXECUTED), AddressVal(executor)>>,
                        <<U64Val(proposal_id), BoolVal(success), U64Val(clock)>>))


----------------------------------------------------------------------------
(* EventSchema *)

(* A decimal digit, and format!("{}", n) of an unsigned integer *)
Digit(d) == <<"0", "1", "2", "3", "4", "5", "6", "7", "8", "9">>[d + 1]

RECURSIVE Decimal(_)
Decimal(n) == IF n < 10 THEN Digit(n) ELSE Decimal(n \div 10) \o Digit(n % 10)

(* EventSchema::current_version *)
current_version == CURRENT_VERSION

(* An is_compatible that accepts the next version *)
is_compatible_forward(version) == version <= current_version + 1

(* EventSchema::is_compatible *)
is_compatible(version) == version <= current_version

(* A get_migration_path that gives a path from a version to itself *)
get_migration_path_to_self(from_version, to_version) ==
    IF from_version > to_version
    THEN None
    ELSE Some(push_back(VecNew,
                "Migrate from v" \o Decimal(from_version)
                    \o " to v" \o Decimal(to_version)))

(* A get_migration_path whose curated arms miss (2, 3) and whose generic   *)
(* step names the target twice                                             *)
get_migration_path_uncurated(from_version, to_version) ==
    IF from_version >= to_version
    THEN None
    ELSE IF from_version = 1 /\ to_version = 2
    THEN Some(<<"Add metadata fields for enhanced indexing",
                "Update event type symbols for consistency">>)
    ELSE IF from_version = 1 /\ to_version = 3
    THEN Some(<<"Add batch operation support", "Include gas usage metadata">>)
    ELSE Some(<<"Migrate from v" \o Decimal(to_version)
                    \o " to v" \o Decimal(to_version)>>)

(* EventSchema::get_migration_path *)
get_migration_path(from_version, to_version) ==
    IF from_version >= to_version
    THEN None
    ELSE
    LET steps == VecNew
    IN  IF from_version = 1 /\ to_version = 2
        THEN Some(push_back(push_back(steps,
                    "Add metadata fields for enhanced indexing"),
                    "Update event type symbols for consistency"))
        ELSE IF (from_version = 1 /\ to_version = 3) \/ (from_version = 2 /\ to_version = 3)
        THEN Some(push_back(push_back(steps,
                    "Add batch operation support"),
                    "Include gas usage metadata"))
        ELSE Some(push_back(steps,
                    "Migrate from v" \o Decimal(from_version)
                        \o " to v" \o Decimal(to_version)))

----------------------------------------------------------------------------
(* The state machine *)

NoQuery == [fn |-> "none"]

Init ==
    /\ log = <<>>
    /\ origin = <<>>
    /\ clock = 0
    /\ contract \in Contracts
    /\ history = <<>>
    /\ query = NoQuery

(* One call of a function of EventEmitter with the given arguments and     *)
(* outcome, while the domain D allows another call                         *)
Call(D, helper, args, res) ==
    /\ Len(history) < D.calls
    /\ log' = res.events
    /\ origin' = origin \o [i \in 1 .. (Len(res.events) - Len(log)) |-> Len(history) + 1]
    /\ history' = Append(history, [helper |-> helper, args |-> args, ok |-> res.ok,
                                   at |-> Len(log), now |-> clock])
    /\ UNCHANGED <<clock, contract, query>>

Transfer(D) ==
    \E from \in D.address, to \in D.address, amount \in D.amount, token \in D.token :
        Call(D, "transfer",
             [from |-> from, to |-> to, amount |-> amount, token |-> token],
             transfer(log, from, to, amount, token))

Approve(D) ==
    \E owner \in D.address, spender \in D.address, amount \in D.amount,
       token \in D.token :
        Call(D, "approve",
             [owner |-> owner, spender |-> spender, amount |-> amount, token |-> token],
             approve(log, owner, spender, amount, token))

Mint(D) ==
    \E to \in D.address, amount \in D.amount, token \in D.token, reason \in D.reason :
        Call(D, "mint",
             [to |-> to, amount |-> amount, token |-> token, reason |-> reason],
             mint(log, to, amount, token, reason))

Burn(D) ==
    \E from \in D.address, amount \in D.amount, token \in D.token :
        Call(D, "burn",
             [from |-> from, amount |-> amount, token |-> token],
             burn(log, from, amount, token))

Stake(D) ==
    \E user \in D.address, amount \in D.amount, lock_period \in D.lockPeriod,
       token \in D.token :
        Call(D, "stake",
             [user |-> user, amount |-> amount, lock_period |-> lock_period,
              token |-> token],
             stake(log, user, amount, lock_period, token))

Unstake(D) ==
    \E user \in D.address, amount \in D.amount, rewards \in D.rewards, fee \in D.fee,
       token \in D.token :
        Call(D, "unstake",
             [user |-> user, amount |-> amount, rewards |-> rewards, fee |-> fee,
              token |-> token],
             unstake(log, user, amount, rewards, fee, token))

(* overflow_checks: whether the build of the contract checks arithmetic *)
RewardsClaimed(D) ==
    \E user \in D.address, base_rewards \in D.rewardInput,
       bonus_rewards \in D.rewardInput, token \in D.token,
       overflow_checks \in BOOLEAN :
        Call(D, "rewards_claimed",
             [user |-> user, base_rewards |-> base_rewards,
              bonus_rewards |-> bonus_rewards, token |-> token],
             rewards_claimed(log, user, base_rewards, bonus_rewards, token,
                             overflow_checks))

Vote(D) ==
    \E voter \in D.address, proposal_id \in D.proposalId, vote_type \in D.voteType,
       voting_power \in D.votingPower :
        Call(D, "vote",
             [voter |-> voter, proposal_id |-> proposal_id, vote_type |-> vote_type,
              voting_power |-> voting_power],
             vote(log, voter, proposal_id, vote_type, voting_power))

AdminChanged(D) ==
    \E old_admin \in D.address, new_admin \in D.address :
        Call(D, "admin_changed",
             [old_admin |-> old_admin, new_admin |-> new_admin],
             admin_changed(log, old_admin, new_admin))

AuthorizationChanged(D) ==
    \E user \in D.address, authorized \in D.authorized :
        Call(D, "authorization_changed",
             [user |-> user, authorized |-> authorized],
             authorization_changed(log, user, authorized))

PoolUpdated(D) ==
    \E admin \in D.address, reward_rate \in D.amount, bonus_multiplier \in D.multiplier :
        Call(D, "pool_updated",
             [admin |-> admin, reward_rate |-> reward_rate,
              bonus_multiplier |-> bonus_multiplier],
             pool_updated(log, admin, reward_rate, bonus_multiplier))

TradeExecuted(D) ==
    \E trader \in D.address, pair \in D.pair, amount \in D.amount, price \in D.price,
       is_buy \in D.flag, fee_amount \in D.fee, fee_token \in D.token :
        Call(D, "trade_executed",
             [trader |-> trader, pair |-> pair, amount |-> amount, price |-> price,
              is_buy |-> is_buy, fee_amount |-> fee_amount, fee_token |-> fee_token],
             trade_executed(log, trader, pair, amount, price, is_buy, fee_amount,
                            fee_token))

FeeCollected(D) ==
    \E payer \in D.address, recipient \in D.address, amount \in D.amount,
       token \in D.token :
        Call(D, "fee_collected",
             [payer |-> payer, recipient |-> recipient, amount |-> amount,
              token |-> token],
             fee_collected(log, payer, recipient, amount, token))

ProposalCreated(D) ==
    \E proposer \in D.address, proposal_id \in D.proposalId, title \in D.title,
       proposal_type \in D.propType :
        Call(D, "proposal_created",
             [proposer |-> proposer, proposal_id |-> proposal_id, title |-> title,
              proposal_type |-> proposal_type],
             proposal_created(log, proposer, proposal_id, title, proposal_type))

ProposalExecuted(D) ==
    \E executor \in D.address, proposal_id \in D.proposalId, success \in D.flag :
        Call(D, "proposal_executed",
             [executor |-> executor, proposal_id |-> proposal_id, success |-> success],
             proposal_executed(log, executor, proposal_id, success))

(* A contract calls the public emit_standard itself *)
EmitStandard(D) ==
    \E event_type \in D.eventType, user_address \in D.user,
       data \in D.data, metadata \in D.metadata :
        Call(D, "emit_standard",
             [event_type |-> event_type, user_address |-> user_address,
              data |-> data, metadata |-> metadata],
             Returned(emit_standard(log, event_type, user_address, data, metadata)))

(* The ledger closes: the timestamp of the environment advances *)
Tick ==
    /\ clock < MaxClock
    /\ clock' = clock + 1
    /\ UNCHANGED <<log, origin, contract, history, query>>

(* Any function of EventEmitter is called with arguments of D, or time passes *)
Emitter(D) ==
    \/ Transfer(D)
    \/ Approve(D)
    \/ Mint(D)
    \/ Burn(D)
    \/ Stake(D)
    \/ Unstake(D)
    \/ RewardsClaimed(D)
    \/ Vote(D)
    \/ AdminChanged(D)
    \/ AuthorizationChanged(D)
    \/ PoolUpdated(D)
    \/ TradeExecuted(D)
    \/ FeeCollected(D)
    \/ ProposalCreated(D)
    \/ ProposalExecuted(D)
    \/ EmitStandard(D)
    \/ Tick

(* Sequences of calls *)
Next == Emitter(SequenceInputs)

Spec == Init /\ [][Next]_vars

(* Calls with arguments of every kind *)
CallNext == Emitter(ArgumentInputs)

CallSpec == Init /\ [][CallNext]_vars

----------------------------------------------------------------------------
(* The consumers' side: queries of the schema version resolver, which      *)
(* touch nothing of the environment                                        *)

IsCompatible ==
    \E version \in Versions :
        /\ query' = [fn |-> "is_compatible", version |-> version,
                     result |-> is_compatible(version)]
        /\ UNCHANGED <<log, origin, clock, contract, history>>

GetMigrationPath ==
    \E from_version \in Versions, to_version \in Versions :
        /\ query' = [fn |-> "get_migration_path", from_version |-> from_version,
                     to_version |-> to_version,
                     result |-> get_migration_path(from_version, to_version)]
        /\ UNCHANGED <<log, origin, clock, contract, history>>

SchemaNext ==
    \/ IsCompatible
    \/ GetMigrationPath

SchemaSpec == Init /\ [][SchemaNext]_vars

----------------------------------------------------------------------------
(* Reading the event log *)

IsStandard(e) == e.topics[1] = SymbolVal(STELLARA_EVENT)
IsHelperCall(c) == c.helper # "emit_standard"
LastCall == history[Len(history)]

(* The entries of the log that call number n published *)
PublishedBy(n) == {i \in 1 .. Len(log) : origin[i] = n}

(* The documented layout of the helpers: topic, actor, data order and      *)
(* metadata of each helper as functions of the arguments of the call       *)
TableTopic(h) ==
    CASE h = "transfer" -> "transfer"
      [] h = "approve" -> "approve"
      [] h = "mint" -> "mint"
      [] h = "burn" -> "burn"
      [] h = "stake" -> "stake"
      [] h = "unstake" -> "unstake"
      [] h = "rewards_claimed" -> "rewards_claimed"
      [] h = "vote" -> "vote"
      [] h = "admin_changed" -> "admin_changed"
      [] h = "authorization_changed" -> "auth_changed"
      [] h = "pool_updated" -> "pool_updated"
      [] h = "trade_executed" -> "trade"
      [] h = "fee_collected" -> "fee"
      [] h = "proposal_created" -> "propose"
      [] h = "proposal_executed" -> "execute"

TableActor(c) ==
    LET a == c.args
    IN CASE c.helper = "transfer" -> a.from
         [] c.helper = "approve" -> a.owner
         [] c.helper = "mint" -> a.to
         [] c.helper = "burn" -> a.from
         [] c.helper \in {"stake", "unstake", "rewards_claimed",
                          "authorization_changed"} -> a.user
         [] c.helper = "vote" -> a.voter
         [] c.helper = "admin_changed" -> a.old_admin
         [] c.helper = "pool_updated" -> a.admin
         [] c.helper = "trade_executed" -> a.trader
         [] c.helper = "fee_collected" -> a.payer
         [] c.helper = "proposal_created" -> a.proposer
         [] c.helper = "proposal_executed" -> a.executor

TableData(c) ==
    LET a == c.args
    IN CASE c.helper \in {"transfer", "approve", "burn", "fee_collected"} ->
                <<I128Val(a.amount), AddressVal(a.token)>>
         [] c.helper = "mint" ->
                IF a.reason = <<>>
                THEN <<I128Val(a.amount), AddressVal(a.token)>>
                ELSE <<I128Val(a.amount), AddressVal(a.token),
                       SymbolVal(a.reason[1].text)>>
         [] c.helper = "stake" ->
                <<I128Val(a.amount), U64Val(a.lock_period), AddressVal(a.token)>>
         [] c.helper = "unstake" ->
                <<I128Val(a.amount), I128Val(a.rewards), I128Val(a.fee),
                  AddressVal(a.token)>>
         [] c.helper = "rewards_claimed" ->
                <<I128Val(a.base_rewards), I128Val(a.bonus_rewards),
                  AddressVal(a.token)>>
         [] c.helper = "vote" ->
                <<U64Val(a.proposal_id), SymbolVal(a.vote_type),
                  U128Val(a.voting_power)>>
         [] c.helper = "admin_changed" ->
                <<AddressVal(a.old_admin), AddressVal(a.new_admin)>>
         [] c.helper = "authorization_changed" ->
                <<BoolVal(a.authorized)>>
         [] c.helper = "pool_updated" ->
                <<I128Val(a.reward_rate), U32Val(a.bonus_multiplier)>>
         [] c.helper = "trade_executed" ->
                <<SymbolVal(a.pair), I128Val(a.amount), I128Val(a.price),
                  BoolVal(a.is_buy), I128Val(a.fee_amount), AddressVal(a.fee_token)>>
         [] c.helper = "proposal_created" ->
                <<U64Val(a.proposal_id), SymbolVal(a.title.text),
                  SymbolVal(a.proposal_type)>>
         [] c.helper = "proposal_executed" ->
                <<U64Val(a.proposal_id), BoolVal(a.success)>>

(* The standardized event and the legacy event of a helper call that returned *)
StandardOf(c) == log[c.at + 1]
LegacyOf(c) == log[c.at + 2]

----------------------------------------------------------------------------
(* C1: dual-channel invariant.  Every standardized event that a domain     *)
(* helper published is immediately followed in the log by a legacy event   *)
(* of the same call, and that call published exactly one legacy event.     *)
DualChannel ==
    \A i \in 1 .. Len(log) :
        (IsStandard(log[i]) /\ IsHelperCall(history[origin[i]])) =>
            /\ i < Len(log)
            /\ ~IsStandard(log[i + 1])
            /\ origin[i + 1] = origin[i]
            /\ Cardinality({j \in PublishedBy(origin[i]) : ~IsStandard(log[j])}) = 1
            /\ Cardinality({j \in PublishedBy(origin[i]) : IsStandard(log[j])}) = 1

(* Two helper calls have each left their pair in the log *)
DualChannelWitness ==
    /\ Len(history) = 2
    /\ history[1].helper = "trade_executed"
    /\ history[2].helper = "transfer"
    /\ Len(log) = 4
    /\ IsStandard(log[1]) /\ ~IsStandard(log[2])
    /\ IsStandard(log[3]) /\ ~IsStandard(log[4])

(* What a call is to leave in the log: the kind and the event type of each *)
(* event, in order                                                         *)
Channel(e) ==
    IF IsStandard(e) THEN <<"standard", e.topics[2].val>>
                     ELSE <<"legacy", e.topics[1].val>>

ExpectedChannels(c) ==
    IF ~c.ok THEN <<>>
    ELSE IF IsHelperCall(c)
         THEN << <<"standard", TableTopic(c.helper)>>, <<"legacy", TableTopic(c.helper)>> >>
         ELSE << <<"standard", c.args.event_type>> >>

RECURSIVE ExpectedLog(_)
ExpectedLog(h) ==
    IF h = <<>> THEN <<>>
    ELSE ExpectedLog(SubSeq(h, 1, Len(h) - 1)) \o ExpectedChannels(h[Len(h)])

(* C2: ordering.  The log is the concatenation, in the order of the calls, *)
(* of what each call published: each helper's (standardized, legacy) pair  *)
(* stands where its call stands among the calls, carries the values of     *)
(* that call, and nothing is reordered, dropped or merged.                 *)
Ordering ==
    /\ [i \in 1 .. Len(log) |-> Channel(log[i])] = ExpectedLog(history)
    /\ \A n \in 1 .. Len(history) :
          (history[n].ok /\ IsHelperCall(history[n])) =>
              /\ PublishedBy(n) = {history[n].at + 1, history[n].at + 2}
              /\ StandardOf(history[n]).data.data = TableData(history[n])
    /\ \A i, j \in 1 .. Len(log) : i < j => origin[i] <= origin[j]

(* transfer then approve: transfer's pair, then approve's pair *)
OrderingWitness ==
    /\ Len(history) = 2
    /\ history[1].helper = "transfer" /\ history[2].helper = "approve"
    /\ [i \in 1 .. Len(log) |-> Channel(log[i])] =
           << <<"standard", "transfer">>, <<"legacy", "transfer">>,
              <<"standard", "approve">>, <<"legacy", "approve">> >>

(* A call fails when a text it must intern is not a symbol *)
MustFail(c) ==
    \/ c.helper = "mint" /\ c.args.reason # <<>> /\ ~SymbolNewOk(c.args.reason[1])
    \/ c.helper = "proposal_created" /\ ~SymbolNewOk(c.args.title)

(* C3: failure atomicity.  A helper call whose text cannot be interned     *)
(* fails and leaves the log as it was; a helper call that does not fail    *)
(* appends its standardized event and then its legacy event, both.         *)
FailureAtomicity ==
    [][ Len(history') > Len(history) =>
          LET c == history'[Len(history')]
          IN /\ MustFail(c) => ~c.ok
             /\ ~c.ok => log' = log
             /\ (c.ok /\ IsHelperCall(c)) =>
                   /\ Len(log') = Len(log) + 2
                   /\ SubSeq(log', 1, Len(log)) = log
                   /\ IsStandard(log'[Len(log) + 1])
                   /\ ~IsStandard(log'[Len(log) + 2]) ]_vars

(* A mint with a reason that is no symbol has failed after an earlier call *)
(* published, and a proposal with such a title likewise                    *)
FailureAtomicityWitness ==
    /\ Len(history) = 2
    /\ history[1].ok /\ Len(log) = 2
    /\ LastCall.helper = "mint"
    /\ LastCall.args.reason # <<>>
    /\ LastCall.args.reason[1].len > SYMBOL_MAX_LEN
    /\ ~LastCall.ok

(* C4: every standardized event in the log has an event type of the topic  *)
(* registry (an emit_standard with any other event type publishes nothing) *)
UnknownTopicRejected ==
    \A i \in 1 .. Len(log) :
        IsStandard(log[i]) => log[i].topics[2].val \in topics

(* C5: envelope stamping.  Whatever a call publishes on the standardized   *)
(* channel carries the current schema version, the address of the running  *)
(* contract and the ledger timestamp of the moment of the call, whatever   *)
(* the arguments of the call.                                              *)
EnvelopeStamping ==
    [][ \A i \in (Len(log) + 1) .. Len(log') :
            IsStandard(log'[i]) =>
                /\ log'[i].data.version = current_version
                /\ log'[i].data.contract_address = contract
                /\ log'[i].data.timestamp = clock ]_vars

(* A direct emit_standard and a helper have both published after the       *)
(* ledger timestamp advanced                                               *)
EnvelopeStampingWitness ==
    /\ Len(history) = 2
    /\ history[1].helper = "emit_standard" /\ history[1].now = 0
    /\ history[2].helper = "stake" /\ history[2].now = 1
    /\ log[1].data.timestamp = 0
    /\ log[2].data.timestamp = 1
    /\ log[2].data.version = 1

(* C6: is_compatible(v) is true exactly when v <= current_version(); the   *)
(* current version is 1, so version 1 is compatible and version 2, a       *)
(* future version, is not.                                                 *)
CompatibleIffNotNewer ==
    query.fn = "is_compatible" =>
        /\ query.result \in BOOLEAN
        /\ query.result <=> (query.version <= current_version)
        /\ current_version = 1
        /\ query.version = 1 => query.result
        /\ query.version >= 2 => ~query.result

(* Version 2 was asked for and found incompatible *)
CompatibleWitness ==
    /\ query.fn = "is_compatible"
    /\ query.version = 2
    /\ query.result = FALSE

(* C7: get_migration_path(from, to) is none exactly when from >= to, and   *)
(* is a non-empty list of steps when from < to; every query has a result.  *)
MigrationPathNoneIffNotIncreasing ==
    query.fn = "get_migration_path" =>
        /\ (query.result = <<>>) <=> (query.from_version >= query.to_version)
        /\ query.from_version < query.to_version =>
              /\ Len(query.result) = 1
              /\ Len(query.result[1]) >= 1

(* (3, 1) was asked for and has no path *)
MigrationPathNoneWitness ==
    /\ query.fn = "get_migration_path"
    /\ query.from_version = 3 /\ query.to_version = 1
    /\ query.result = <<>>

KnownTransitions == {<<1, 2>>, <<1, 3>>, <<2, 3>>}

GenericStep(from, to) == "Migrate from v" \o ToString(from) \o " to v" \o ToString(to)

(* C8: for from < to, the known transitions (1,2), (1,3), (2,3) have a     *)
(* curated list of two steps, none of them the generic step, and every     *)
(* other increasing pair has exactly one step, the generic one, which      *)
(* names from and to.                                                      *)
MigrationPathSteps ==
    (query.fn = "get_migration_path" /\ query.from_version < query.to_version) =>
        LET from == query.from_version
            to == query.to_version
            steps == query.result[1]
        IN IF <<from, to>> \in KnownTransitions
           THEN /\ Len(steps) = 2
                /\ \A i \in 1 .. 2 : steps[i] # GenericStep(from, to)
           ELSE steps = <<GenericStep(from, to)>>

(* (2, 5) was asked for and has the one generic step naming 2 and 5 *)
MigrationPathStepsWitness ==
    /\ query.fn = "get_migration_path"
    /\ query.from_version = 2 /\ query.to_version = 5
    /\ query.result = << <<"Migrate from v2 to v5">> >>

(* C9: field layout.  The standardized event of every helper call has the  *)
(* helper's topic as event type, the argument of the actor column as actor *)
(* and exactly the data order of the table as data.                        *)
FieldLayout ==
    \A n \in 1 .. Len(history) :
        (history[n].ok /\ IsHelperCall(history[n])) =>
            LET c == history[n]
                e == StandardOf(c)
            IN /\ IsStandard(e)
               /\ e.topics[2] = SymbolVal(TableTopic(c.helper))
               /\ e.data.user_address = <<TableActor(c)>>
               /\ e.data.data = TableData(c)

(* A sell by GB has been published with its six data values *)
FieldLayoutWitness ==
    /\ Len(history) >= 1
    /\ history[1].helper = "trade_executed"
    /\ ~history[1].args.is_buy
    /\ history[1].args.trader = "GB"
    /\ log[1].data.user_address = <<"GB">>
    /\ Len(log[1].data.data) = 6
    /\ log[1].data.data[4] = BoolVal(FALSE)

(* The metadata of the table: each key with the value of its field *)
TableMetadata(c) ==
    LET a == c.args
    IN CASE c.helper = "transfer" ->
                ("amount" :> I128Val(a.amount)) @@ ("from" :> AddressVal(a.from))
                @@ ("to" :> AddressVal(a.to)) @@ ("token" :> AddressVal(a.token))
         [] c.helper = "approve" ->
                ("amount" :> I128Val(a.amount)) @@ ("from" :> AddressVal(a.owner))
                @@ ("to" :> AddressVal(a.spender)) @@ ("token" :> AddressVal(a.token))
         [] c.helper = "mint" ->
                IF a.reason = <<>>
                THEN ("amount" :> I128Val(a.amount)) @@ ("to" :> AddressVal(a.to))
                     @@ ("token" :> AddressVal(a.token))
                ELSE ("amount" :> I128Val(a.amount)) @@ ("to" :> AddressVal(a.to))
                     @@ ("token" :> AddressVal(a.token))
                     @@ ("reason" :> SymbolVal(a.reason[1].text))
         [] c.helper = "burn" ->
                ("amount" :> I128Val(a.amount)) @@ ("from" :> AddressVal(a.from))
                @@ ("token" :> AddressVal(a.token))
         [] c.helper = "stake" ->
                ("amount" :> I128Val(a.amount))
                @@ ("lock_period" :> U64Val(a.lock_period))
                @@ ("token" :> AddressVal(a.token))
         [] c.helper = "unstake" ->
                ("amount" :> I128Val(a.amount)) @@ ("fee" :> I128Val(a.fee))
                @@ ("token" :> AddressVal(a.token))
         [] c.helper = "rewards_claimed" ->
                ("amount" :> I128Val(a.base_rewards + a.bonus_rewards))
                @@ ("token" :> AddressVal(a.token))
         [] c.helper = "vote" ->
                ("proposal_id" :> U64Val(a.proposal_id))
                @@ ("vote_type" :> SymbolVal(a.vote_type))
         [] c.helper = "admin_changed" ->
                ("from" :> AddressVal(a.old_admin)) @@ ("to" :> AddressVal(a.new_admin))
         [] c.helper = "authorization_changed" ->
                ("to" :> AddressVal(a.user))
         [] c.helper = "pool_updated" ->
                ("reward_rate" :> I128Val(a.reward_rate))
         [] c.helper = "trade_executed" ->
                ("pair" :> SymbolVal(a.pair)) @@ ("amount" :> I128Val(a.amount))
                @@ ("price" :> I128Val(a.price)) @@ ("fee" :> I128Val(a.fee_amount))
                @@ ("token" :> AddressVal(a.fee_token))
         [] c.helper = "fee_collected" ->
                ("from" :> AddressVal(a.payer)) @@ ("to" :> AddressVal(a.recipient))
                @@ ("amount" :> I128Val(a.amount)) @@ ("token" :> AddressVal(a.token))
         [] c.helper \in {"proposal_created", "proposal_executed"} ->
                ("proposal_id" :> U64Val(a.proposal_id))

(* The one key of the table that is no argument of its call: the amount of *)
(* rewards_claimed is a sum, and a field only when the sum is an i128      *)
IsComputedOutOfRange(c, k) ==
    /\ c.helper = "rewards_claimed"
    /\ k = "amount"
    /\ ~InI128(c.args.base_rewards + c.args.bonus_rewards)

MintReasonOmitted ==
    \A n \in 1 .. Len(history) :
        (history[n].helper = "mint" /\ history[n].ok) =>
            LET a == history[n].args
                e == StandardOf(history[n]).data
            IN IF a.reason = <<>>
               THEN /\ e.data = <<I128Val(a.amount), AddressVal(a.token)>>
                    /\ "reason" \notin DOMAIN e.metadata
                    /\ DOMAIN e.metadata = {"amount", "to", "token"}
               ELSE /\ e.data = <<I128Val(a.amount), AddressVal(a.token),
                                  SymbolVal(a.reason[1].text)>>
                    /\ "reason" \in DOMAIN e.metadata
                    /\ e.metadata["reason"] = <<SymbolVal(a.reason[1].text)>>
                    /\ e.metadata["reason"][1] = e.data[3]

(* A mint without a reason and a mint with the reason airdrop have         *)
(* published                                                               *)
MintReasonOmittedWitness ==
    /\ Len(history) = 2
    /\ history[1].helper = "mint" /\ history[1].ok /\ history[1].args.reason = <<>>
    /\ history[2].helper = "mint" /\ history[2].ok
    /\ history[2].args.reason # <<>>
    /\ Len(log[1].data.data) = 2
    /\ Len(log[3].data.data) = 3
    /\ log[3].data.metadata["reason"] = <<SymbolVal("airdrop")>>

(* C12: authorization_changed(user, true) and a later                      *)
(* authorization_changed(user, false) on the same user have standardized   *)
(* events with the second timestamp not before the first, the user as      *)
(* actor of both, and every other field but data the same; the data are    *)
(* the two flags.                                                          *)
AuthorizationToggle ==
    \A n, m \in 1 .. Len(history) :
        ( /\ n < m
          /\ history[n].helper = "authorization_changed"
          /\ history[m].helper = "authorization_changed"
          /\ history[n].args.user = history[m].args.user
          /\ history[n].args.authorized
          /\ ~history[m].args.authorized ) =>
            LET e1 == StandardOf(history[n])
                e2 == StandardOf(history[m])
            IN /\ IsStandard(e1) /\ IsStandard(e2)
               /\ e2.data.timestamp >= e1.data.timestamp
               /\ e1.data.user_address = <<history[n].args.user>>
               /\ e2.data.user_address = e1.data.user_address
               /\ e2.topics = e1.topics
               /\ e2.data.contract_address = e1.data.contract_address
               /\ e2.data.metadata = e1.data.metadata
               /\ e2.data.version = e1.data.version
               /\ e1.data.data = <<BoolVal(TRUE)>>
               /\ e2.data.data = <<BoolVal(FALSE)>>

(* GA was authorized, the ledger closed, and GA was unauthorized *)
AuthorizationToggleWitness ==
    /\ Len(history) = 2
    /\ history[1].helper = "authorization_changed" /\ history[1].args.authorized
    /\ history[2].helper = "authorization_changed" /\ ~history[2].args.authorized
    /\ history[1].args.user = history[2].args.user
    /\ log[1].data.timestamp = 0
    /\ log[3].data.timestamp = 1

(* The legacy event that the values of a standardized event e of helper h  *)
(* determine: the key identities and the payload fields of the legacy      *)
(* format, each taken from the field of e that holds it                    *)
DerivedLegacy(h, e) ==
    LET type == e.topics[2]
        actor == AddressVal(e.data.user_address[1])
        d == e.data.data
        m == e.data.metadata
        ts == U64Val(e.data.timestamp)
    IN CASE h \in {"transfer", "approve"} ->
                [topics |-> <<type, actor, m["to"][1]>>, data |-> d[1]]
         [] h \in {"mint", "burn"} ->
                [topics |-> <<type, actor>>, data |-> d[1]]
         [] h \in {"stake", "rewards_claimed", "pool_updated", "proposal_executed"} ->
                [topics |-> <<type, actor>>, data |-> <<d[1], d[2], ts>>]
         [] h \in {"unstake", "vote"} ->
                [topics |-> <<type, actor>>, data |-> <<d[1], d[2], d[3], ts>>]
         [] h = "admin_changed" ->
                [topics |-> <<type, actor>>, data |-> d[2]]
         [] h = "authorization_changed" ->
                [topics |-> <<type, actor>>, data |-> d[1]]
         [] h = "proposal_created" ->
                [topics |-> <<type, actor>>,
                 data |-> <<d[1], IntoVal("String", d[2].val), d[3], ts>>]
         [] h = "trade_executed" ->
                [topics |-> <<type>>,
                 data |-> [ trader     |-> e.data.user_address[1],
                            pair       |-> d[1].val,
                            amount     |-> d[2].val,
                            price      |-> d[3].val,
                            is_buy     |-> d[4].val,
                            fee_amount |-> d[5].val,
                            fee_token  |-> d[6].val,
                            timestamp  |-> e.data.timestamp ]]
         [] h = "fee_collected" ->
                [topics |-> <<type>>,
                 data |-> [ payer     |-> e.data.user_address[1],
                            recipient |-> m["to"][1].val,
                            amount    |-> d[1].val,
                            token     |-> d[2].val,
                            timestamp |-> e.data.timestamp ]]

IsStructLegacy(h) == h \in {"trade_executed", "fee_collected"}

(* The legacy event of call c carries the values of its standardized event *)
(* and nothing else                                                        *)
LegacyFromStandard(c) ==
    LET l == LegacyOf(c)
        x == DerivedLegacy(c.helper, StandardOf(c))
    IN /\ l.topics = x.topics
       /\ IF IsStructLegacy(c.helper)
          THEN /\ DOMAIN l.data = DOMAIN x.data
               /\ \A f \in DOMAIN x.data : l.data[f] = x.data[f]
          ELSE l.data = x.data

(* C13: legacy derivation.  For every helper call, every value of the      *)
(* legacy event (key identities, payload fields, timestamp) is the value   *)
(* of the same field of the standardized event of that call, and the       *)
(* legacy event has no other value.                                        *)
LegacyDerivation ==
    \A n \in 1 .. Len(history) :
        (history[n].ok /\ IsHelperCall(history[n])) => LegacyFromStandard(history[n])

(* The same, of every helper but trade_executed *)
LegacyDerivationButTrade ==
    \A n \in 1 .. Len(history) :
        (history[n].ok /\ IsHelperCall(history[n])
            /\ history[n].helper # "trade_executed") => LegacyFromStandard(history[n])

(* The names of the registry that an identifier stands for *)
NamesOf(id) == {name \in DOMAIN TopicRegistry : TopicRegistry[name] = id}

(* The identifier under which an event of the log was published *)
IdentifierOf(e) == IF IsStandard(e) THEN e.topics[2].val ELSE e.topics[1].val

(* C14: topic identifiers are never reused.  No two distinct names of the  *)
(* registry have the same identifier: whatever identifier an event is      *)
(* published under, two names that both map to it are the same name.       *)
TopicIdentifiersUnique ==
    \A i \in 1 .. Len(log) :
        \A a, b \in NamesOf(IdentifierOf(log[i])) : a = b

(* C15: reward-sum exactness.  Every rewards_claimed call, for every pair  *)
(* of i128 rewards, returns having published a standardized event whose    *)
(* metadata "amount" is the mathematical sum base_rewards + bonus_rewards  *)
(* and whose data holds the two rewards unchanged.                         *)
RewardSumExact ==
    \A n \in 1 .. Len(history) :
        history[n].helper = "rewards_claimed" =>
            LET c == history[n]
                a == c.args
            IN /\ c.ok
               /\ LET e == StandardOf(c).data
                  IN /\ DOMAIN e.metadata = {"amount", "token"}
                     /\ Len(e.metadata["amount"]) = 1
                     /\ e.metadata["amount"][1].tag = "I128"
                     /\ e.metadata["amount"][1].val = a.base_rewards + a.bonus_rewards
                     /\ e.data = <<I128Val(a.base_rewards), I128Val(a.bonus_rewards),
                                   AddressVal(a.token)>>

====
